---- MODULE Spec2Model ----
(***************************************************************************)
(* The two validation scripts of the tutorial repository:                  *)
(*   src/test_execution.py  extract_and_test_multiprocessing               *)
(*   src/test_syntax.py     test_multiprocessing_syntax                    *)
(* Both read one Quarto file, extract its fenced python blocks with the    *)
(* same regular expression, and then execute-and-probe (the first) or      *)
(* parse (the second) the blocks in document order.                        *)
(*                                                                         *)
(* Text is modelled as a sequence of tokens.  A token is a literal piece   *)
(* of the file: a fence, a run of whitespace, or one line of Python with   *)
(* exactly the text of the token; lines follow each other on new lines.    *)
(***************************************************************************)
EXTENDS Integers, Sequences, FiniteSets, TLC

VARIABLES script, readable, content, pc, blocks, i, test_env, blockOut,
          execLog, j, probeOut, returned, parseAttempts, synOut

vars == <<script, readable, content, pc, blocks, i, test_env, blockOut,
          execLog, j, probeOut, returned, parseAttempts, synOut>>

---------------------------------------------------------------------------
(* Bounds of the checked inputs *)

\* most blocks in a document built from BlockTexts
MaxBlocks == 2
\* most blocks in a document built from SynTexts
MaxSynBlocks == 5
\* most tokens in a document of arbitrary fence structure
MaxDocLen == 6

---------------------------------------------------------------------------
(* Tokens *)

\* the opening fence of the pattern: three backticks and {python}
Opener == "FENCE{python}"
\* the closing fence of the pattern: three backticks
Closer == "FENCE"
\* a run of whitespace (blanks, newlines)
WS == " "
\* lines of Python that bind a probed name
DefSquare == "def square_number(x): return x * x"
DefSquareRaises == "def square_number(x): raise ValueError('boom')"
DefSquareExits == "def square_number(x): raise SystemExit(3)"
DefSum == "def sum_reducer(a, b): return a + b"
\* a line that unbinds square_number
DelSquare == "del square_number"
\* a line that invokes square_number
CallSquare == "square_number(5)"
\* a line that raises an Exception, one that raises SystemExit
RaiseStmt == "raise ValueError('boom')"
ExitStmt == "raise SystemExit(3)"
\* a line that does not parse
BadSyntax == "def ("
\* the entry-point guard literal (test_execution.py:56,58)
MainGuard == "if __name__ == \"__main__\""

\* a list that lost one of its idioms
skip_patterns_Short ==
    << "pool.map(", "ProcessPoolExecutor", "executor.map", "multiprocessing.Pool(" >>

\* skip_patterns, test_execution.py:43-49
skip_patterns ==
    << "pool.map(", "ProcessPoolExecutor", "executor.map", "mp.Pool(",
       "multiprocessing.Pool(" >>

\* test_functions, test_execution.py:19-25, in dict (insertion) order
IntArg(n) == [t |-> "int", n |-> n]
StrArg == [t |-> "str", n |-> 0]
DictArg == [t |-> "dict", n |-> 0]
test_functions ==
    << [name |-> "square_number", args |-> <<IntArg(5)>>],
       [name |-> "word_count_mapper", args |-> <<StrArg>>],
       [name |-> "word_count_reducer", args |-> <<DictArg, DictArg>>],
       [name |-> "square_mapper", args |-> <<IntArg(5)>>],
       [name |-> "sum_reducer", args |-> <<IntArg(10), IntArg(20)>>] >>

ProbeNames == { test_functions[k].name : k \in 1..Len(test_functions) }

---------------------------------------------------------------------------
(* Helpers on token sequences *)

Min(S) == CHOOSE m \in S : \A n \in S : m <= n

Contains(s, t) == \E k \in 1..Len(s) : s[k] = t

Max(S) == CHOOSE m \in S : \A n \in S : m >= n

\* str.strip(): leading and trailing whitespace removed
RECURSIVE LStrip(_)
LStrip(s) == IF s # <<>> /\ Head(s) = WS THEN LStrip(Tail(s)) ELSE s

RECURSIVE RStrip(_)
RStrip(s) ==
    IF s # <<>> /\ s[Len(s)] = WS THEN RStrip(SubSeq(s, 1, Len(s) - 1)) ELSE s

Strip(s) == RStrip(LStrip(s))

\* block_code.split(sep)[0]: the text before the first occurrence of sep
SplitFirst(s, sep) ==
    IF Contains(s, sep)
    THEN SubSeq(s, 1, Min({k \in 1..Len(s) : s[k] = sep}) - 1)
    ELSE s

---------------------------------------------------------------------------
(* Extraction: re.findall(pattern, content, re.DOTALL), the pattern being  *)
(* an opener, a lazy group (.*?) and three backticks                       *)

\* the three backticks are found at a closing fence and at the head of an opener
HasFenceMarker(t) == t = Closer \/ t = Opener

\* positions after p where the lazy group can end
ClosersAfter(s, p) == {q \in (p + 1)..Len(s) : HasFenceMarker(s[q])}

\* a greedy group (.*) would end at the last marker
MatchEnd_Greedy(s, p) == Max(ClosersAfter(s, p))

\* the marker that ends the group opened at p: the nearest one (lazy .*?)
MatchEnd(s, p) == Min(ClosersAfter(s, p))

RECURSIVE FindAllFrom(_, _)
FindAllFrom(s, pos) ==
    LET starts == {p \in pos..Len(s) : s[p] = Opener /\ ClosersAfter(s, p) # {}}
    IN IF starts = {} THEN <<>>
       ELSE LET p == Min(starts)
                q == MatchEnd(s, p)
            IN <<SubSeq(s, p + 1, q - 1)>> \o FindAllFrom(s, q + 1)

FindAll(s) == FindAllFrom(s, 1)

---------------------------------------------------------------------------
(* What exec and eval do with the modelled lines of Python *)

\* the values a probed name can be bound to: the function bodies of the Def lines
Unbound == "unbound"
Bodies == {"square", "raiser", "exiter", "add"}

\* test_env = {}
EmptyEnv == [n \in ProbeNames |-> Unbound]

Outcome(kind, value, detail) == [kind |-> kind, value |-> value, detail |-> detail]

AllInts(args) == \A k \in 1..Len(args) : args[k].t = "int"

\* calling a bound function with literal arguments: it returns a value, raises
\* an Exception, or raises SystemExit (a BaseException that is no Exception)
Invoke(body, args) ==
    CASE body = "square" ->
           IF Len(args) # 1 \/ ~AllInts(args) THEN Outcome("error", 0, "TypeError")
           ELSE Outcome("ok", args[1].n * args[1].n, "")
      [] body = "add" ->
           IF Len(args) # 2 \/ ~AllInts(args) THEN Outcome("error", 0, "TypeError")
           ELSE Outcome("ok", args[1].n + args[2].n, "")
      [] body = "raiser" ->
           IF Len(args) # 1 THEN Outcome("error", 0, "TypeError")
           ELSE Outcome("error", 0, "ValueError")
      [] body = "exiter" ->
           IF Len(args) # 1 THEN Outcome("error", 0, "TypeError")
           ELSE Outcome("exit", 0, "SystemExit")
      [] OTHER -> Outcome("error", 0, "TypeError")

\* the name a Def line binds, and the body it binds it to
IsDef(t) == t \in {DefSquare, DefSquareRaises, DefSquareExits, DefSum}
DefName(t) == IF t = DefSum THEN "sum_reducer" ELSE "square_number"
DefBody(t) ==
    CASE t = DefSquare -> "square"
      [] t = DefSquareRaises -> "raiser"
      [] t = DefSquareExits -> "exiter"
      [] OTHER -> "add"

IsSkipPattern(t) == \E k \in 1..Len(skip_patterns) : t = skip_patterns[k]

\* one statement run in env: the environment after it and how it ended
RunStmt(t, env) ==
    CASE IsDef(t) ->
           [env |-> [env EXCEPT ![DefName(t)] = DefBody(t)], kind |-> "ok", detail |-> ""]
      [] t = CallSquare ->
           IF env["square_number"] = Unbound
           THEN [env |-> env, kind |-> "error", detail |-> "NameError"]
           ELSE LET r == Invoke(env["square_number"], <<IntArg(5)>>)
                IN [env |-> env, kind |-> r.kind, detail |-> r.detail]
      \* del removes the key from the globals dict, or raises NameError
      [] t = DelSquare ->
           IF env["square_number"] = Unbound
           THEN [env |-> env, kind |-> "error", detail |-> "NameError"]
           ELSE [env |-> [env EXCEPT !["square_number"] = Unbound], kind |-> "ok",
                 detail |-> ""]
      [] t = RaiseStmt -> [env |-> env, kind |-> "error", detail |-> "ValueError"]
      [] t = ExitStmt -> [env |-> env, kind |-> "exit", detail |-> "SystemExit"]
      \* ProcessPoolExecutor and executor are bound by no modelled line (the
      \* other idioms do not compile and never get here)
      [] IsSkipPattern(t) -> [env |-> env, kind |-> "error", detail |-> "NameError"]
      \* whitespace
      [] OTHER -> [env |-> env, kind |-> "ok", detail |-> ""]

\* the statements of a compiled block run in order until one raises; what the
\* earlier ones bound stays bound
RECURSIVE RunStmts(_, _)
RunStmts(code, env) ==
    IF code = <<>> THEN [env |-> env, kind |-> "ok", detail |-> ""]
    ELSE LET r == RunStmt(Head(code), env)
         IN IF r.kind = "ok" THEN RunStmts(Tail(code), r.env) ELSE r

\* a line that is valid Python as it stands: not the malformed def, not the
\* guard literal (it lacks its colon), not an idiom ending in an open parenthesis
LineParses(t) ==
    t \notin {BadSyntax, MainGuard, "pool.map(", "mp.Pool(", "multiprocessing.Pool("}

\* ast.parse(code), and the compile step of exec(code, env)
ParseOk(code) == \A k \in 1..Len(code) : LineParses(code[k])

\* a block run in a fresh environment instead of the shared one
Exec_FreshEnv(code, env) ==
    IF ~ParseOk(code) THEN [env |-> EmptyEnv, kind |-> "error", detail |-> "SyntaxError"]
    ELSE RunStmts(code, EmptyEnv)

\* a block whose bindings are rolled back when it raises
Exec_Rollback(code, env) ==
    IF ~ParseOk(code) THEN [env |-> env, kind |-> "error", detail |-> "SyntaxError"]
    ELSE LET r == RunStmts(code, env)
         IN IF r.kind = "error" THEN [r EXCEPT !.env = env] ELSE r

\* exec(block_code, test_env)
Exec(code, env) ==
    IF ~ParseOk(code) THEN [env |-> env, kind |-> "error", detail |-> "SyntaxError"]
    ELSE RunStmts(code, env)

\* eval(test_call, test_env), for a name found in test_env
Eval(probe, env) == Invoke(env[probe.name], probe.args)

---------------------------------------------------------------------------
(* The documents the scripts are run on *)

SeqsUpTo(S, n) == UNION { [1..k -> S] : k \in 0..n }

Fenced(text) == <<Opener>> \o text \o <<Closer>>

RECURSIVE FencedAll(_)
FencedAll(texts) ==
    IF texts = <<>> THEN <<>> ELSE Fenced(Head(texts)) \o FencedAll(Tail(texts))

\* block texts for the execution script
BlockTexts ==
    { <<>>, <<WS>>,
      <<DefSquare>>, <<WS, DefSquare, WS>>, <<DefSquareRaises>>, <<DefSquareExits>>,
      <<DefSum>>, <<CallSquare>>, <<RaiseStmt>>, <<ExitStmt>>, <<BadSyntax>>,
      <<DefSquare, RaiseStmt>>, <<RaiseStmt, DefSquare>>, <<DefSquare, BadSyntax>>,
      <<DefSum, ExitStmt>>, <<CallSquare, DefSquare>>, <<DefSquare, CallSquare>>,
      <<"pool.map(">>, <<"ProcessPoolExecutor">>, <<"executor.map">>,
      <<"mp.Pool(">>, <<"multiprocessing.Pool(">>,
      <<DefSquare, "pool.map(">>, <<"ProcessPoolExecutor", DefSum>>,
      <<MainGuard>>, <<MainGuard, DefSquare>>,
      <<DefSquare, MainGuard, CallSquare>>, <<DefSquare, MainGuard, ExitStmt>>,
      <<DefSquare, MainGuard, BadSyntax>>, <<DefSum, MainGuard, "pool.map(">>,
      <<"mp.Pool(", MainGuard, DefSquare>>,
      <<DefSum, WS, MainGuard, WS, RaiseStmt>>,
      <<DefSquare, MainGuard, DefSum, MainGuard, DefSquareRaises>>,
      <<DelSquare>>, <<DelSquare, DefSquare>> }

ExecDocs == { FencedAll(texts) : texts \in SeqsUpTo(BlockTexts, MaxBlocks) }

\* block texts for the syntax script
SynTexts ==
    { <<WS>>, <<DefSquare>>, <<BadSyntax>>, <<MainGuard>>,
      <<WS, DefSquare, "pool.map(", WS>> }

SynDocs == { FencedAll(texts) : texts \in SeqsUpTo(SynTexts, MaxSynBlocks) }

\* documents of any fence structure, well formed or not
RawTokens == {Opener, Closer, WS, DefSquare}
RawDocs == SeqsUpTo(RawTokens, MaxDocLen)

DocsFor(s) == IF s = "execution" THEN ExecDocs \cup RawDocs ELSE SynDocs \cup RawDocs

---------------------------------------------------------------------------
(* The state machine *)

Init ==
    /\ script \in {"execution", "syntax"}
    /\ \/ readable = TRUE /\ content \in DocsFor(script)
       \/ readable = FALSE /\ content = <<>>
    /\ pc = "start"
    /\ blocks = <<>>
    /\ i = 1
    /\ test_env = EmptyEnv
    /\ blockOut = <<>>
    /\ execLog = <<>>
    /\ j = 1
    /\ probeOut = <<>>
    /\ returned = "none"
    /\ parseAttempts = 0
    /\ synOut = <<>>

\* open() or read() raises: the outer handler returns False
ExecLoadFails ==
    /\ script = "execution" /\ pc = "start" /\ ~readable
    /\ pc' = "exited" /\ returned' = "False"
    /\ UNCHANGED <<script, readable, content, blocks, i, test_env, blockOut,
                   execLog, j, probeOut, parseAttempts, synOut>>

\* the file is read and its blocks are extracted
ExecLoad ==
    /\ script = "execution" /\ pc = "start" /\ readable
    /\ blocks' = FindAll(content)
    /\ pc' = "blocks"
    /\ UNCHANGED <<script, readable, content, i, test_env, blockOut, execLog, j,
                   probeOut, returned, parseAttempts, synOut>>

\* the exclusion check made after the guard split, on the text to execute
Excluded_AfterSplit(block_code) ==
    \E k \in 1..Len(skip_patterns) :
        Contains(SplitFirst(block_code, MainGuard), skip_patterns[k])

\* any(skip in block_code for skip in skip_patterns)
Excluded(block_code) ==
    \E k \in 1..Len(skip_patterns) : Contains(block_code, skip_patterns[k])

\* the guard left in place
Effective_NoSplit(block_code) == block_code

\* the text handed to exec: the part before the first guard, stripped again
Effective(block_code) ==
    IF Contains(block_code, MainGuard)
    THEN Strip(SplitFirst(block_code, MainGuard))
    ELSE block_code

\* a loop that counts its blocks from 0: enumerate(blocks)
BlockLine_ZeroBased(idx, status, detail) ==
    [index |-> idx - 1, status |-> status, detail |-> detail]

\* the printed line "Block {i}: ...", i counted from 1 by enumerate(blocks, 1)
BlockLine(idx, status, detail) == [index |-> idx, status |-> status, detail |-> detail]

\* one iteration of the loop over the blocks
ExecBlock ==
    /\ script = "execution" /\ pc = "blocks" /\ i <= Len(blocks)
    /\ LET block_code == Strip(blocks[i])
           code == Effective(block_code)
           r == Exec(code, test_env)
       IN IF block_code = <<>>
          THEN /\ i' = i + 1
               /\ UNCHANGED <<pc, test_env, blockOut, execLog, returned>>
          ELSE IF Excluded(block_code)
          THEN /\ blockOut' = Append(blockOut, BlockLine(i, "SKIPPED", ""))
               /\ i' = i + 1
               /\ UNCHANGED <<pc, test_env, execLog, returned>>
          ELSE /\ execLog' = Append(execLog, [index |-> i, code |-> code])
               /\ test_env' = r.env
               /\ CASE r.kind = "ok" ->
                         /\ blockOut' = Append(blockOut, BlockLine(i, "EXECUTED", ""))
                         /\ i' = i + 1
                         /\ UNCHANGED <<pc, returned>>
                    [] r.kind = "error" ->
                         /\ blockOut' = Append(blockOut, BlockLine(i, "ERROR", r.detail))
                         /\ i' = i + 1
                         /\ UNCHANGED <<pc, returned>>
                    \* SystemExit is caught by neither except Exception clause
                    [] OTHER ->
                         /\ pc' = "exited" /\ returned' = "SystemExit"
                         /\ UNCHANGED <<blockOut, i>>
    /\ UNCHANGED <<script, readable, content, blocks, j, probeOut, parseAttempts,
                   synOut>>

\* the loop over the blocks is over
ExecBlocksDone ==
    /\ script = "execution" /\ pc = "blocks" /\ i > Len(blocks)
    /\ pc' = "probes"
    /\ UNCHANGED <<script, readable, content, blocks, i, test_env, blockOut,
                   execLog, j, probeOut, returned, parseAttempts, synOut>>

ProbeLine(name, status, value, detail) ==
    [name |-> name, status |-> status, value |-> value, detail |-> detail]

\* one iteration of the loop over test_functions
ExecProbe ==
    /\ script = "execution" /\ pc = "probes" /\ j <= Len(test_functions)
    /\ LET probe == test_functions[j]
           r == Eval(probe, test_env)
       IN IF test_env[probe.name] = Unbound
          THEN /\ probeOut' = Append(probeOut, ProbeLine(probe.name, "NOT FOUND", 0, ""))
               /\ j' = j + 1
               /\ UNCHANGED <<pc, returned>>
          ELSE CASE r.kind = "ok" ->
                      /\ probeOut' = Append(probeOut, ProbeLine(probe.name, "OK", r.value, ""))
                      /\ j' = j + 1
                      /\ UNCHANGED <<pc, returned>>
                 [] r.kind = "error" ->
                      /\ probeOut' = Append(probeOut, ProbeLine(probe.name, "ERROR", 0, r.detail))
                      /\ j' = j + 1
                      /\ UNCHANGED <<pc, returned>>
                 [] OTHER ->
                      /\ pc' = "exited" /\ returned' = "SystemExit"
                      /\ UNCHANGED <<probeOut, j>>
    /\ UNCHANGED <<script, readable, content, blocks, i, test_env, blockOut,
                   execLog, parseAttempts, synOut>>

\* return True
ExecReturn ==
    /\ script = "execution" /\ pc = "probes" /\ j > Len(test_functions)
    /\ pc' = "exited" /\ returned' = "True"
    /\ UNCHANGED <<script, readable, content, blocks, i, test_env, blockOut,
                   execLog, j, probeOut, parseAttempts, synOut>>

\* the syntax script: open() or read() raises
SynLoadFails ==
    /\ script = "syntax" /\ pc = "start" /\ ~readable
    /\ pc' = "exited" /\ returned' = "False"
    /\ UNCHANGED <<script, readable, content, blocks, i, test_env, blockOut,
                   execLog, j, probeOut, parseAttempts, synOut>>

SynLoad ==
    /\ script = "syntax" /\ pc = "start" /\ readable
    /\ blocks' = FindAll(content)
    /\ pc' = "blocks"
    /\ UNCHANGED <<script, readable, content, i, test_env, blockOut, execLog, j,
                   probeOut, returned, parseAttempts, synOut>>

\* a loop that goes on after a syntax error
SynBlock_NoStop ==
    /\ script = "syntax" /\ pc = "blocks" /\ i <= Len(blocks)
    /\ LET code == Strip(blocks[i])
       IN IF code = <<>>
          THEN UNCHANGED <<parseAttempts, synOut>>
          ELSE /\ parseAttempts' = parseAttempts + 1
               /\ synOut' = Append(synOut, BlockLine(i,
                        IF ParseOk(code) THEN "OK" ELSE "SYNTAX ERROR",
                        IF ParseOk(code) THEN "" ELSE "SyntaxError"))
    /\ i' = i + 1
    /\ UNCHANGED <<script, readable, content, blocks, test_env, blockOut, execLog,
                   j, probeOut, pc, returned>>

\* one iteration of the loop of the syntax script
SynBlock ==
    /\ script = "syntax" /\ pc = "blocks" /\ i <= Len(blocks)
    /\ LET code == Strip(blocks[i])
       IN IF code = <<>>
          THEN /\ i' = i + 1
               /\ UNCHANGED <<pc, returned, parseAttempts, synOut>>
          ELSE /\ parseAttempts' = parseAttempts + 1
               /\ IF ParseOk(code)
                  THEN /\ synOut' = Append(synOut, BlockLine(i, "OK", ""))
                       /\ i' = i + 1
                       /\ UNCHANGED <<pc, returned>>
                  ELSE /\ synOut' = Append(synOut, BlockLine(i, "SYNTAX ERROR", "SyntaxError"))
                       /\ pc' = "exited" /\ returned' = "False"
                       /\ UNCHANGED i
    /\ UNCHANGED <<script, readable, content, blocks, test_env, blockOut, execLog,
                   j, probeOut>>

\* every block parsed: return True
SynReturn ==
    /\ script = "syntax" /\ pc = "blocks" /\ i > Len(blocks)
    /\ pc' = "exited" /\ returned' = "True"
    /\ UNCHANGED <<script, readable, content, blocks, i, test_env, blockOut,
                   execLog, j, probeOut, parseAttempts, synOut>>

Next ==
    \/ ExecLoadFails
    \/ ExecLoad
    \/ ExecBlock
    \/ ExecBlocksDone
    \/ ExecProbe
    \/ ExecReturn
    \/ SynLoadFails
    \/ SynLoad
    \/ SynBlock
    \/ SynReturn

Spec == Init /\ [][Next]_vars

\* sys.exit(0 if success else 1); a SystemExit(3) that escapes exits with 3
ExitCode == CASE returned = "True" -> 0 [] returned = "False" -> 1 [] OTHER -> 3

TypeOK ==
    /\ pc \in {"start", "blocks", "probes", "exited"}
    /\ returned \in {"none", "True", "False", "SystemExit"}
    /\ i \in 1..(Len(blocks) + 1)
    /\ j \in 1..(Len(test_functions) + 1)

---------------------------------------------------------------------------
(* Definitions the properties are stated with *)

\* the fence structure of a document, read off its fence tokens alone
NextFenceAfter(s, p) ==
    IF \E q \in (p + 1)..Len(s) : s[q] \in {Opener, Closer}
    THEN Min({q \in (p + 1)..Len(s) : s[q] \in {Opener, Closer}})
    ELSE 0

\* an opener whose next fence is a closer: a well-formed fence pair
Paired(s, p) ==
    /\ s[p] = Opener
    /\ NextFenceAfter(s, p) # 0
    /\ s[NextFenceAfter(s, p)] = Closer

\* an opener with no closer of its own
Dangling(s, p) == s[p] = Opener /\ ~Paired(s, p)

WellFormed(s) == \A p \in 1..Len(s) : s[p] = Opener => Paired(s, p)

HasDangling(s) == \E p \in 1..Len(s) : Dangling(s, p)

\* the texts of the well-formed fence pairs, in document order
RECURSIVE PairBlocksFrom(_, _)
PairBlocksFrom(s, p) ==
    IF p > Len(s) THEN <<>>
    ELSE IF Paired(s, p)
         THEN <<SubSeq(s, p + 1, NextFenceAfter(s, p) - 1)>> \o PairBlocksFrom(s, p + 1)
         ELSE PairBlocksFrom(s, p + 1)

PairBlocks(s) == PairBlocksFrom(s, 1)

\* the five exclusion substrings, as the contract lists them
ExclusionLiterals ==
    {"pool.map(", "ProcessPoolExecutor", "executor.map", "mp.Pool(",
     "multiprocessing.Pool("}

HasExclusionSubstring(text) == \E k \in 1..Len(text) : text[k] \in ExclusionLiterals

Trimmed(k) == Strip(blocks[k])

\* blocks the execution script is to run: not blank, not excluded
Runnable(k) == Trimmed(k) # <<>> /\ ~HasExclusionSubstring(Trimmed(k))

\* the lines of the modelled Python that are syntax errors
SyntaxErrorLines ==
    {"def (", "if __name__ == \"__main__\"", "pool.map(", "mp.Pool(",
     "multiprocessing.Pool("}

Unparsable(text) == \E k \in 1..Len(text) : text[k] \in SyntaxErrorLines

\* non-blank blocks that do not parse
BadBlocks == {k \in 1..Len(blocks) : Trimmed(k) # <<>> /\ Unparsable(Trimmed(k))}

MentionsDef(code, name) ==
    \E k \in 1..Len(code) : IsDef(code[k]) /\ DefName(code[k]) = name

\* a block that parses and whose first statement binds name
BindsFirst(code, name) ==
    /\ code # <<>>
    /\ ~Unparsable(code)
    /\ IsDef(code[1]) /\ DefName(code[1]) = name

SquareDefs(code) ==
    {code[k] : k \in {m \in 1..Len(code) : IsDef(code[m]) /\ DefName(code[m]) = "square_number"}}

\* the printed lines about block idx
LinesOf(idx) == {blockOut[k] : k \in {m \in 1..Len(blockOut) : blockOut[m].index = idx}}

\* the part of a trimmed block before its first guard
BeforeGuard(text) ==
    IF \E k \in 1..Len(text) : text[k] = MainGuard
    THEN SubSeq(text, 1, Min({k \in 1..Len(text) : text[k] = MainGuard}) - 1)
    ELSE text

\* the environment after the first k executed blocks, replayed from the log
RECURSIVE EnvAfter(_, _)
EnvAfter(log, k) ==
    IF k = 0 THEN EmptyEnv
    ELSE IF Unparsable(log[k].code) THEN EnvAfter(log, k - 1)
         ELSE RunStmts(log[k].code, EnvAfter(log, k - 1)).env

\* running code in env executes a definition of name before any statement raises
RECURSIVE ReachesDef(_, _, _)
ReachesDef(code, env, name) ==
    IF code = <<>> THEN FALSE
    ELSE LET r == RunStmt(Head(code), env)
         IN IF r.kind # "ok" THEN FALSE
            ELSE \/ IsDef(Head(code)) /\ DefName(Head(code)) = name
                 \/ ReachesDef(Tail(code), r.env, name)

DefinedByLog(name) ==
    \E e \in 1..Len(execLog) :
        /\ ~Unparsable(execLog[e].code)
        /\ ReachesDef(execLog[e].code, EnvAfter(execLog, e - 1), name)

\* a block whose text holds a statement that unbinds name
Unbinds(code, name) == name = "square_number" /\ Contains(code, "del square_number")

\* no executed block from the a-th to the b-th of the log holds such a statement
NoUnbind(log, a, b, name) == \A e \in a..b : ~Unbinds(log[e].code, name)

\* the statements of code that run in env before one raises
RECURSIVE RanOk(_, _)
RanOk(code, env) ==
    IF code = <<>> THEN <<>>
    ELSE LET r == RunStmt(Head(code), env)
         IN IF r.kind # "ok" THEN <<>>
            ELSE <<Head(code)>> \o RanOk(Tail(code), r.env)

\* the statements run by the first k executed blocks, in order
RECURSIVE RanUpTo(_, _)
RanUpTo(log, k) ==
    IF k = 0 THEN <<>>
    ELSE RanUpTo(log, k - 1) \o
         (IF Unparsable(log[k].code) THEN <<>>
          ELSE RanOk(log[k].code, EnvAfter(log, k - 1)))

\* a definition of name ran and no del of name ran after it
Survives(name, ran) ==
    \E p \in 1..Len(ran) :
        /\ IsDef(ran[p]) /\ DefName(ran[p]) = name
        /\ \A q \in (p + 1)..Len(ran) : ~(name = "square_number" /\ ran[q] = "del square_number")

Finished == pc = "exited"

---------------------------------------------------------------------------
(* Properties *)

\* C1: in the execution script no failure of a block or of a probe prevents
\* the evaluation of the rest: when a run that read its file ends, every
\* non-blank non-excluded block has been executed and every entry of
\* test_functions has been probed, whatever was raised on the way.
C1_EveryUnitEvaluated ==
    (script = "execution" /\ readable /\ Finished) =>
        /\ \A k \in 1..Len(blocks) :
              Runnable(k) => \E e \in 1..Len(execLog) : execLog[e].index = k
        /\ \A q \in 1..Len(test_functions) :
              \E m \in 1..Len(probeOut) : probeOut[m].name = test_functions[q].name

\* C2: the syntax script is fail-fast: when block k is the first non-blank
\* block that does not parse, no more than k parse attempts are ever made, no
\* line is printed about a block after k, and the run ends returning False
\* with the SYNTAX ERROR line for index k as its last line.
C2_FailFast ==
    (script = "syntax" /\ BadBlocks # {}) =>
        LET k == Min(BadBlocks)
        IN /\ parseAttempts <= k
           /\ i <= k
           /\ \A m \in 1..Len(synOut) : synOut[m].index <= k
           /\ Finished =>
                 /\ returned = "False"
                 /\ synOut # <<>>
                 /\ synOut[Len(synOut)] = BlockLine(k, "SYNTAX ERROR", "SyntaxError")
                 /\ parseAttempts = Cardinality({m \in 1..k : Trimmed(m) # <<>>})

\* a run over five blocks, the third malformed, the fourth and fifth not blank
C2_Witness ==
    /\ script = "syntax" /\ Finished
    /\ Len(blocks) = 5
    /\ BadBlocks # {} /\ Min(BadBlocks) = 3
    /\ Trimmed(4) # <<>> /\ Trimmed(5) # <<>>
    /\ parseAttempts = 3

\* C3 as stated: blocks are executed in document order against one shared environment:
\* a block that invokes square_number is EXECUTED when an earlier executed
\* block defined it, fails with NameError when no earlier block did (also when
\* a later one does), and a name bound by an executed block is in the
\* environment from then on.
C3_Accumulation ==
    script = "execution" =>
        /\ \A a, b \in 1..Len(execLog) : a < b => execLog[a].index < execLog[b].index
        /\ \A b \in 1..Len(execLog) :
              execLog[b].code = <<CallSquare>> =>
                 LET earlier == {a \in 1..(b - 1) : MentionsDef(execLog[a].code, "square_number")}
                     lines == LinesOf(execLog[b].index)
                 IN /\ earlier = {} =>
                          /\ lines # {}
                          /\ \A l \in lines : l.status = "ERROR" /\ l.detail = "NameError"
                    /\ (\E a \in earlier : BindsFirst(execLog[a].code, "square_number")) =>
                          \A l \in lines : l.detail # "NameError"
                    /\ ( /\ \E a \in earlier : BindsFirst(execLog[a].code, "square_number")
                         /\ \A a \in earlier : SquareDefs(execLog[a].code) \subseteq {DefSquare} ) =>
                          /\ lines # {}
                          /\ \A l \in lines : l.status = "EXECUTED"
        /\ \A a \in 1..Len(execLog) : \A n \in ProbeNames :
              BindsFirst(execLog[a].code, n) => test_env[n] # Unbound

\* C3 as amended: blocks are executed in document order against one shared
\* environment: a block that invokes square_number is EXECUTED when an earlier
\* executed block defined it and no block executed since holds a del of it,
\* fails with NameError when no earlier block defined it (also when a later
\* one does) and the later blocks are executed all the same, and a name
\* bound by an executed block is in the environment until a later executed
\* statement unbinds it.
C3_AccumulationUntilUnbound ==
    script = "execution" =>
        /\ \A a, b \in 1..Len(execLog) : a < b => execLog[a].index < execLog[b].index
        /\ \A b \in 1..Len(execLog) :
              execLog[b].code = <<CallSquare>> =>
                 LET earlier == {a \in 1..(b - 1) : MentionsDef(execLog[a].code, "square_number")}
                     kept == {a \in earlier :
                                 /\ BindsFirst(execLog[a].code, "square_number")
                                 /\ NoUnbind(execLog, a, b - 1, "square_number")}
                     lines == LinesOf(execLog[b].index)
                 IN /\ earlier = {} =>
                          /\ lines # {}
                          /\ \A l \in lines : l.status = "ERROR" /\ l.detail = "NameError"
                    /\ kept # {} => \A l \in lines : l.detail # "NameError"
                    /\ ( /\ kept # {}
                         /\ \A a \in earlier : SquareDefs(execLog[a].code) \subseteq {DefSquare} ) =>
                          /\ lines # {}
                          /\ \A l \in lines : l.status = "EXECUTED"
        /\ \A a \in 1..Len(execLog) : \A n \in ProbeNames :
              (BindsFirst(execLog[a].code, n) /\ NoUnbind(execLog, a, Len(execLog), n)) =>
                 test_env[n] # Unbound
        \* the failure of B stops nothing: every runnable block the loop has
        \* passed since was handed to exec
        /\ \A b \in 1..Len(execLog) :
              (\E l \in LinesOf(execLog[b].index) : l.detail = "NameError") =>
                 \A k \in (execLog[b].index + 1)..Len(blocks) :
                    (k < i /\ Runnable(k)) =>
                       \E e \in (b + 1)..Len(execLog) : execLog[e].index = k

\* block A defines square_number, the later block B invokes it and is EXECUTED
C3_Witness ==
    /\ script = "execution" /\ returned = "True"
    /\ \E a, b \in 1..Len(execLog) :
          /\ a < b
          /\ execLog[a].code = <<DefSquare>>
          /\ execLog[b].code = <<CallSquare>>
          /\ \E l \in LinesOf(execLog[b].index) : l.status = "EXECUTED"
    /\ test_env["square_number"] = "square"

\* C4: the step that processes a block whose trimmed text contains one of the
\* five exclusion substrings prints SKIPPED for it, executes nothing and
\* leaves the environment as it was, wherever the block stands and whatever
\* code surrounds the substring.
C4_ExclusionStep ==
    [][ ( /\ script = "execution" /\ pc = "blocks" /\ i <= Len(blocks)
          /\ HasExclusionSubstring(Trimmed(i)) ) =>
        ( /\ test_env' = test_env
          /\ execLog' = execLog
          /\ blockOut' = Append(blockOut, BlockLine(i, "SKIPPED", ""))
          /\ i' = i + 1
          /\ pc' = pc ) ]_vars

\* a second block with a definition before the substring was skipped: the
\* name it defines is unbound, the binding of the first block is kept
C4_Witness ==
    /\ script = "execution" /\ returned = "True"
    /\ Len(blocks) = 2
    /\ Trimmed(2) = <<DefSquare, "pool.map(">>
    /\ BlockLine(2, "SKIPPED", "") \in LinesOf(2)
    /\ test_env["sum_reducer"] = "add"
    /\ test_env["square_number"] = Unbound

\* C5: after all blocks are processed every entry of test_functions gets
\* exactly one result, classified by the final environment: NOT FOUND exactly
\* when the name is absent, else OK with the value the invocation returns, or
\* ERROR with the error text when the invocation raises.
C5_ProbeClassification ==
    (script = "execution" /\ readable /\ Finished /\ i > Len(blocks)) =>
        /\ Len(probeOut) = Len(test_functions)
        /\ \A q \in 1..Len(probeOut) :
              LET probe == test_functions[q]
                  r == Invoke(test_env[probe.name], probe.args)
              IN /\ probeOut[q].name = probe.name
                 /\ (probeOut[q].status = "NOT FOUND") <=> (test_env[probe.name] = Unbound)
                 /\ (test_env[probe.name] # Unbound /\ r.kind = "ok") =>
                       (probeOut[q].status = "OK" /\ probeOut[q].value = r.value)
                 /\ (test_env[probe.name] # Unbound /\ r.kind # "ok") =>
                       (probeOut[q].status = "ERROR" /\ probeOut[q].detail = r.detail)

\* C6: a run of the execution script that read its file returns True and
\* exits with code 0, whatever its blocks and probes did; only a run whose
\* read failed returns False and exits with a non-zero code.
C6_SuccessIffRead ==
    (script = "execution" /\ Finished) =>
        /\ readable => (returned = "True" /\ ExitCode = 0)
        /\ ~readable => (returned = "False" /\ ExitCode # 0)

\* C7 as stated: for a non-excluded block that contains the entry-point guard, the text
\* handed to exec is the trimmed text before the first guard; what it binds
\* is bound, and a name defined only at or after guards is never bound.
C7_GuardStripping ==
    script = "execution" =>
        /\ \A e \in 1..Len(execLog) :
              LET text == Trimmed(execLog[e].index)
              IN Contains(text, MainGuard) =>
                    /\ execLog[e].code = Strip(BeforeGuard(text))
                    /\ ~Contains(execLog[e].code, MainGuard)
                    /\ \A n \in ProbeNames :
                          BindsFirst(execLog[e].code, n) => test_env[n] # Unbound
        /\ \A n \in ProbeNames :
              test_env[n] # Unbound =>
                 \E k \in 1..Len(blocks) : MentionsDef(BeforeGuard(Trimmed(k)), n)

\* C7 as amended: for a non-excluded block that contains the entry-point
\* guard, the text handed to exec is the trimmed text before the first guard;
\* what it binds is bound until a later executed statement unbinds it, and a
\* name defined only at or after guards is never bound.
C7_GuardStrippingUntilUnbound ==
    script = "execution" =>
        /\ \A e \in 1..Len(execLog) :
              LET text == Trimmed(execLog[e].index)
              IN Contains(text, MainGuard) =>
                    /\ execLog[e].code = Strip(BeforeGuard(text))
                    /\ ~Contains(execLog[e].code, MainGuard)
                    /\ \A n \in ProbeNames :
                          ( /\ BindsFirst(execLog[e].code, n)
                            /\ NoUnbind(execLog, e, Len(execLog), n) ) =>
                             test_env[n] # Unbound
        /\ \A n \in ProbeNames :
              test_env[n] # Unbound =>
                 \E k \in 1..Len(blocks) : MentionsDef(BeforeGuard(Trimmed(k)), n)

\* the definition before the guard is bound, the SystemExit after it never ran
C7_Witness ==
    /\ script = "execution" /\ returned = "True"
    /\ \E e \in 1..Len(execLog) :
          /\ Trimmed(execLog[e].index) = <<DefSquare, MainGuard, ExitStmt>>
          /\ execLog[e].code = <<DefSquare>>
    /\ test_env["square_number"] = "square"

\* C8: for a document whose every opener is closed by a closer before any
\* other fence, extraction returns exactly the texts between each opener and
\* its closer, one block per pair, in document order, whitespace included;
\* with no fence pair it returns the empty sequence.
C8_ExtractionOrder ==
    (readable /\ pc # "start" /\ WellFormed(content)) =>
        blocks = PairBlocks(content)

\* two pairs extracted, their whitespace kept
C8_Witness ==
    /\ readable /\ pc # "start" /\ WellFormed(content)
    /\ blocks = << <<WS, DefSquare, WS>>, <<DefSum, WS, MainGuard, WS, RaiseStmt>> >>

\* C9 as stated: a probe is NOT FOUND only if no executed block ran a definition of its
\* name before failing, whatever was processed afterwards.
C9_NotFoundOnlyIfUndefined ==
    script = "execution" =>
        \A q \in 1..Len(probeOut) :
            probeOut[q].status = "NOT FOUND" => ~DefinedByLog(probeOut[q].name)

\* C9 as amended: a probe is NOT FOUND only if no executed block ran a
\* definition of its name before failing, or a del of the name ran after the
\* last such definition; the failure of a block never removes a binding.
C9_NotFoundOnlyIfUndefinedOrUnbound ==
    script = "execution" =>
        \A q \in 1..Len(probeOut) :
            probeOut[q].status = "NOT FOUND" =>
                ~Survives(probeOut[q].name, RanUpTo(execLog, Len(execLog)))

\* the defining block raised after the definition, a later block failed too,
\* and the probe still found the name
C9_Witness ==
    /\ script = "execution" /\ returned = "True"
    /\ blocks = << <<DefSquare, RaiseStmt>>, <<RaiseStmt>> >>
    /\ \A l \in LinesOf(1) \cup LinesOf(2) : l.status = "ERROR"
    /\ \E q \in 1..Len(probeOut) :
          probeOut[q] = ProbeLine("square_number", "OK", 25, "")

\* C10: in a document with an opener that has no closer of its own, the
\* dangling opener is ignored and every well-formed fence pair, before or
\* after it, is extracted with exactly its own text.
C10_DanglingOpenerIgnored ==
    (readable /\ pc # "start" /\ HasDangling(content)) =>
        blocks = PairBlocks(content)

\* a block of whitespace only
IsBlank(text) == \A k \in 1..Len(text) : text[k] = WS

\* the blocks the loop has gone through: those before i
NonBlankProcessed == {k \in 1..Len(blocks) : k < i /\ ~IsBlank(blocks[k])}

\* C11 as stated: a run of the execution script that ends normally over N
\* extracted blocks, whitespace-only blocks included, has printed N block
\* results, the m-th about block m.
C11_OneResultPerBlock ==
    (script = "execution" /\ returned = "True") =>
        /\ Len(blockOut) = Len(blocks)
        /\ \A m \in 1..Len(blockOut) : blockOut[m].index = m

\* C11 as amended: the block results are, at every point of the run, exactly
\* one line per non-blank block gone through so far, in block order, each
\* carrying its block's position in the full extracted sequence, with status
\* EXECUTED, SKIPPED or ERROR; a whitespace-only block gets no line.
C11_OneResultPerNonBlankBlock ==
    script = "execution" =>
        /\ \A m \in 1..Len(blockOut) :
              /\ blockOut[m].status \in {"EXECUTED", "SKIPPED", "ERROR"}
              /\ blockOut[m].index \in NonBlankProcessed
        /\ \A m, n \in 1..Len(blockOut) : m < n => blockOut[m].index < blockOut[n].index
        /\ \A k \in NonBlankProcessed :
              Cardinality({m \in 1..Len(blockOut) : blockOut[m].index = k}) = 1
        /\ returned = "True" => Len(blockOut) = Cardinality(NonBlankProcessed)

\* a finished run over a blank block followed by a definition: one line, about block 2
C11_Witness ==
    /\ script = "execution" /\ returned = "True"
    /\ blocks = << <<WS>>, <<DefSquare>> >>
    /\ Len(blockOut) = 1
    /\ blockOut[1].index = 2 /\ blockOut[1].status = "EXECUTED"

\* a trimmed block with a guard whose exclusion substrings all lie at or after it
ExcludedOnlyAfterGuard(text) ==
    /\ \E k \in 1..Len(text) : text[k] = MainGuard
    /\ HasExclusionSubstring(text)
    /\ ~HasExclusionSubstring(BeforeGuard(text))

\* the blocks whose text holds a definition of name
Definers(name) == {k \in 1..Len(blocks) : MentionsDef(Trimmed(k), name)}

\* C12: the exclusion check is made on the whole trimmed block before the
\* guard split: a block whose only exclusion substrings lie at or after its
\* guard is SKIPPED as a whole and never handed to exec, so a name defined
\* only before the guard of such blocks is never bound and its probe is
\* NOT FOUND.
C12_ExclusionBeforeGuardSplit ==
    script = "execution" =>
        /\ \A k \in 1..Len(blocks) :
              (k < i /\ ExcludedOnlyAfterGuard(Trimmed(k))) =>
                 /\ LinesOf(k) # {}
                 /\ \A l \in LinesOf(k) : l.status = "SKIPPED"
                 /\ \A e \in 1..Len(execLog) : execLog[e].index # k
        /\ \A n \in ProbeNames :
              ( /\ Definers(n) # {}
                /\ \A k \in Definers(n) :
                      /\ ExcludedOnlyAfterGuard(Trimmed(k))
                      /\ MentionsDef(BeforeGuard(Trimmed(k)), n) ) =>
                 /\ test_env[n] = Unbound
                 /\ \A q \in 1..Len(probeOut) :
                       probeOut[q].name = n => probeOut[q].status = "NOT FOUND"

\* sum_reducer is defined before the guard of a block whose pool.map( comes
\* after it: the block is skipped and the probe does not find the name
C12_Witness ==
    /\ script = "execution" /\ returned = "True"
    /\ blocks = << <<DefSquare>>, <<DefSum, MainGuard, "pool.map(">> >>
    /\ \E l \in LinesOf(2) : l.status = "SKIPPED"
    /\ ProbeLine("square_number", "OK", 25, "") = probeOut[1]
    /\ ProbeLine("sum_reducer", "NOT FOUND", 0, "") = probeOut[5]

====
